---- MODULE Spec2Model ----
(***************************************************************************)
(* A model of topology-sync (src/src/sync.py): the functions of the module *)
(* and the script under `if __name__ == "__main__"`.                       *)
(*                                                                         *)
(* Python strings are sequences of one-character strings, so that `in`,    *)
(* str.replace, str.endswith and the ordering used by sorted() are         *)
(* computed on characters as Python computes them.  A Python call that may *)
(* raise is a record [exc |-> <exception name or "none">, val |-> <value>].*)
(***************************************************************************)
EXTENDS Integers, Sequences, FiniteSets, TLC

VARIABLES
    call,       \* the last call of a function of the module: arguments and outcome
    prevCall,   \* a summary of the call before it
    fs,         \* the projects directory of the working copy: file name -> document
    repo,       \* the git working copy and its remote, and the pull requests opened
    pc,         \* the script: the statement it is at
    env,        \* the script: what it is run with (token file, database, clock, fork)
    exc,        \* the script: the exception that is propagating, or "none"
    all_projects,                 \* the script's variable of that name
    projects_added_in_last_day,   \* the script's variable of that name
    tmpdir,     \* the temporary directory: "none", "exists" or "removed"
    effects     \* the script: what it has done outside itself, in order

vars == <<call, prevCall, fs, repo, pc, env, exc, all_projects,
          projects_added_in_last_day, tmpdir, effects>>

libVars == <<call, prevCall, fs, repo>>
mainVars == <<pc, env, exc, all_projects, projects_added_in_last_day, tmpdir, effects>>

(***************************************************************************)
(* Bounds of the model.                                                    *)
(***************************************************************************)
MaxGroups == 3      \* names in one answer of client.get_group_list()
MaxProjects == 3    \* records in one list given to the recency filter
MaxFiles == 2       \* files in the projects directory at the start
MaxPRs == 2         \* pull requests opened by calls of create_pull_request

Range(s) == { s[i] : i \in DOMAIN s }

(***************************************************************************)
(* Python str.                                                             *)
(***************************************************************************)
\* ord(c), for the characters the model's strings are made of
Ord(c) ==
    CASE c = "." -> 46 [] c = "A" -> 65 [] c = "B" -> 66
      [] c = "a" -> 97 [] c = "b" -> 98 [] c = "g" -> 103
      [] c = "l" -> 108 [] c = "m" -> 109 [] c = "o" -> 111
      [] c = "r" -> 114 [] c = "s" -> 115 [] c = "t" -> 116
      [] c = "y" -> 121

\* a < b on str: the first differing character decides, a proper prefix is smaller
RECURSIVE StrLess(_, _)
StrLess(a, b) ==
    IF b = <<>> THEN FALSE
    ELSE IF a = <<>> THEN TRUE
    ELSE IF a[1] # b[1] THEN Ord(a[1]) < Ord(b[1])
    ELSE StrLess(Tail(a), Tail(b))

\* s[i:i+len(sub)] == sub, with i counted from 1
StartsAt(s, sub, i) ==
    /\ i >= 1
    /\ i + Len(sub) - 1 <= Len(s)
    /\ SubSeq(s, i, i + Len(sub) - 1) = sub

\* sub in s
InStr(sub, s) == \E i \in 1..(Len(s) + 1) : StartsAt(s, sub, i)

\* s.endswith(suffix)
EndsWith(s, suffix) == StartsAt(s, suffix, Len(s) - Len(suffix) + 1)

\* s.replace(old, new), old not empty: every occurrence, found left to right
\* without overlap
RECURSIVE Replace(_, _, _)
Replace(s, old, new) ==
    IF s = <<>> THEN <<>>
    ELSE IF StartsAt(s, old, 1)
         THEN new \o Replace(SubSeq(s, Len(old) + 1, Len(s)), old, new)
         ELSE <<s[1]>> \o Replace(Tail(s), old, new)

\* the string literals of the source
S_rootosg == <<"r", "o", "o", "t", ".", "o", "s", "g">>
S_rootosgdot == S_rootosg \o <<".">>
S_yaml == <<".", "y", "a", "m", "l">>
S_yml == <<".", "y", "m", "l">>
S_empty == <<>>

(***************************************************************************)
(* datetime: a naive datetime is <<year, month, day, hour, minute, second, *)
(* microsecond>>; datetimes compare field by field from the left.          *)
(***************************************************************************)
RECURSIVE TupleLess(_, _)
TupleLess(a, b) ==
    IF a = <<>> \/ b = <<>> THEN FALSE
    ELSE IF a[1] # b[1] THEN a[1] < b[1]
    ELSE TupleLess(Tail(a), Tail(b))

\* a >= b on datetime
DtGeq(a, b) == ~TupleLess(a, b)

\* %b: the month abbreviations strptime knows (it matches them ignoring case)
MonthNumber(abbr) ==
    CASE abbr \in {"Jan", "jan"} -> 1
      [] abbr \in {"Feb", "feb"} -> 2
      [] abbr \in {"Dec", "dec"} -> 12
      [] OTHER -> 0

\* %Z: the zone names strptime accepts on a host whose zone is UTC
ZoneKnown(z) == z \in {"UTC", "GMT", "utc", "gmt"}

\* A creation_date string, as the fields the format "%Y-%b-%d %H:%M:%S.%f %Z"
\* cuts it into: <<year, month abbreviation, day, hour, minute, second,
\* microsecond, zone name>>.  datetime.strptime gives a naive datetime (the
\* zone name is matched and dropped) or raises ValueError.
strptime(d) ==
    IF MonthNumber(d[2]) = 0 \/ ~ZoneKnown(d[8])
    THEN [exc |-> "ValueError", val |-> <<>>]
    ELSE [exc |-> "none",
          val |-> <<d[1], MonthNumber(d[2]), d[3], d[4], d[5], d[6], d[7]>>]

(***************************************************************************)
(* The membership database behind client.UserApiClient (not in this        *)
(* repository): what its calls answer is drawn when a function is called.  *)
(***************************************************************************)
N_root == S_rootosg
N_A == S_rootosgdot \o <<"A">>
N_B == S_rootosgdot \o <<"B">>
N_plain == <<"A">>
N_infix == <<"A", ".">> \o S_rootosg
N_nested == S_rootosgdot \o S_rootosgdot \o <<"A">>
N_near == <<"r", "o", "o", "t", ".", "o", "s">>

GroupNames == {N_root, N_A, N_B, N_plain, N_infix, N_nested, N_near}

D_jan1 == <<2022, "Jan", 1, 1, 1, 1, 0, "UTC">>
D_jan2 == <<2022, "jan", 2, 1, 1, 1, 500000, "GMT">>
D_bad == <<2022, "Jan", 1, 1, 1, 1, 0, "EST">>

DateStrings == {D_jan1, D_jan2, D_bad}

\* lists without repetition of at most n elements of S
ListsOf(S, n) ==
    { l \in UNION { [1..k -> S] : k \in 0..n } :
        \A i, j \in DOMAIN l : i # j => l[i] # l[j] }

\* all lists of at most n elements of S
SeqsUpTo(S, n) == UNION { [1..k -> S] : k \in 0..n }

(***************************************************************************)
(* get_all_osg_projects                                                    *)
(***************************************************************************)
\* sorted(l) for a list of str
RECURSIVE sorted(_)
sorted(l) ==
    IF l = <<>> THEN <<>>
    ELSE LET i == CHOOSE i \in DOMAIN l : \A j \in DOMAIN l : ~StrLess(l[j], l[i])
             rest == [k \in 1..(Len(l) - 1) |-> IF k < i THEN l[k] ELSE l[k + 1]]
         IN <<l[i]>> \o sorted(rest)

\* the loop of get_all_osg_projects over the sorted names
RECURSIVE ListerLoop(_, _, _)
ListerLoop(client, names, osg_projects) ==
    IF names = <<>> THEN [exc |-> "none", val |-> osg_projects]
    ELSE LET project == Head(names)
             project_data == client.metadata[project]
         IN IF S_rootosg # project
            THEN LET d == strptime(project_data.creation_date)
                 IN IF d.exc # "none"
                    THEN [exc |-> d.exc, val |-> <<>>]
                    ELSE ListerLoop(client, Tail(names),
                                    Append(osg_projects, <<project, d.val>>))
            ELSE ListerLoop(client, Tail(names), osg_projects)

\* get_all_osg_projects with a prefix test in place of `"root.osg" in project`
get_all_osg_projects_prefix(client) ==
    ListerLoop(client,
               sorted(SelectSeq(client.group_list,
                                LAMBDA project : StartsAt(project, S_rootosg, 1))),
               <<>>)

get_all_osg_projects(client) ==
    ListerLoop(client,
               sorted(SelectSeq(client.group_list,
                                LAMBDA project : InStr(S_rootosg, project))),
               <<>>)

(***************************************************************************)
(* get_all_projects_added_after_date                                       *)
(***************************************************************************)
\* the filter with > in place of >=
get_all_projects_added_after_date_strict(projects, date) ==
    SelectSeq(projects, LAMBDA p : TupleLess(date, p[2]))

get_all_projects_added_after_date(projects, date) ==
    SelectSeq(projects, LAMBDA p : DtGeq(p[2], date))

T_before == <<2022, 1, 3, 1, 1, 0, 999999>>
T_at == <<2022, 1, 3, 1, 1, 1, 0>>
T_after == <<2022, 1, 3, 1, 1, 1, 1>>
T_feb == <<2022, 2, 1, 0, 0, 0, 0>>

DateTimes == {T_before, T_at, T_after, T_feb}

ProjectRecords == {N_A, N_B} \X DateTimes

NoCall == [op |-> "none"]

(***************************************************************************)
(* Calls of the two pure functions, as the tests make them.                *)
(***************************************************************************)
CallGetAllOsgProjects ==
    /\ call.op = "none"
    /\ \E l \in ListsOf(GroupNames, MaxGroups) :
         \E dates \in [Range(l) -> DateStrings] :
            LET client == [group_list |-> l,
                           metadata |-> [n \in Range(l) |-> [creation_date |-> dates[n]]]]
            IN call' = [op |-> "get_all_osg_projects", client |-> client,
                        out |-> get_all_osg_projects(client)]
    /\ prevCall' = [op |-> call.op]
    /\ UNCHANGED <<fs, repo>>
    /\ UNCHANGED mainVars

CallFilter ==
    /\ call.op = "none"
    /\ \E projects \in SeqsUpTo(ProjectRecords, MaxProjects), date \in DateTimes :
         call' = [op |-> "get_all_projects_added_after_date",
                  projects |-> projects, date |-> date,
                  out |-> get_all_projects_added_after_date(projects, date)]
    /\ prevCall' = [op |-> call.op]
    /\ UNCHANGED <<fs, repo>>
    /\ UNCHANGED mainVars

\* the caller is done with the outcome of its call
Forget ==
    /\ call.op # "none"
    /\ call' = NoCall
    /\ prevCall' = NoCall
    /\ UNCHANGED <<fs, repo>>
    /\ UNCHANGED mainVars

NoRepo == [tracked |-> {}, commits |-> <<>>, pushed |-> 0, pulls |-> 0]
NoEnv == [token_file |-> FALSE]

\* the script is not running
MainIdle ==
    /\ pc = "idle"
    /\ env = NoEnv
    /\ exc = "none"
    /\ all_projects = <<>>
    /\ projects_added_in_last_day = <<>>
    /\ tmpdir = "none"
    /\ effects = <<>>

Init ==
    /\ call = NoCall
    /\ prevCall = NoCall
    /\ fs = <<>>
    /\ repo = NoRepo
    /\ MainIdle

Next == CallGetAllOsgProjects \/ CallFilter \/ Forget

Spec == Init /\ [][Next]_vars

(***************************************************************************)
(* C1: whenever get_all_osg_projects returns, its result holds exactly one *)
(* (name, parsed creation date) pair for each name of the group list that  *)
(* contains "root.osg" and is not "root.osg" itself, no other pair, and    *)
(* the pairs are in ascending order of name.                               *)
(***************************************************************************)
ContainsToken(n) ==
    \E i \in 0..Len(n) : \E j \in i..Len(n) : SubSeq(n, i + 1, j) = S_rootosg

C1_Wanted(l) == { n \in Range(l) : ContainsToken(n) /\ n # S_rootosg }

DaysBeforeMonth(m) == CASE m = 1 -> 0 [] m = 2 -> 31 [] m = 12 -> 334

\* whole seconds since 2021-01-01 00:00:00
SecondsOf(t) ==
    ((((t[1] - 2021) * 365 + DaysBeforeMonth(t[2]) + (t[3] - 1)) * 24 + t[4]) * 60
        + t[5]) * 60 + t[6]

AtOrAfter(t, cutoff) ==
    \/ SecondsOf(t) > SecondsOf(cutoff)
    \/ SecondsOf(t) = SecondsOf(cutoff) /\ t[7] >= cutoff[7]

\* the k-th smallest element of a set of numbers
KthOf(S, k) == CHOOSE x \in S : Cardinality({ y \in S : y < x }) = k - 1

C2_FilterExact ==
    call.op = "get_all_projects_added_after_date" =>
        LET kept == { i \in DOMAIN call.projects :
                        AtOrAfter(call.projects[i][2], call.date) }
        IN /\ Len(call.out) = Cardinality(kept)
           /\ \A k \in DOMAIN call.out : call.out[k] = call.projects[KthOf(kept, k)]

\* a call with a record exactly at the cutoff (kept) and one a microsecond
\* earlier (dropped)
C2_Witness ==
    /\ call.op = "get_all_projects_added_after_date"
    /\ call.date = T_at
    /\ call.projects = << <<N_A, T_before>>, <<N_B, T_at>>, <<N_A, T_after>> >>
    /\ call.out = << <<N_B, T_at>>, <<N_A, T_after>> >>

(***************************************************************************)
(* Python values, and PyYAML's yaml.dump(data, f) / yaml.load(f, Loader).  *)
(* A YAML document is its node graph.  The keys of a mapping node are kept *)
(* as strings, and a mapping node as a function of its keys: the order in  *)
(* which yaml.dump writes the keys of a dict does not reach the loaded     *)
(* value.                                                                  *)
(***************************************************************************)
PyStr(s) == [py |-> "str", v |-> s]
PyDict(f) == [py |-> "dict", v |-> f]
PyList(l) == [py |-> "list", v |-> l]
\* collections.OrderedDict: its items, a list of <<key, value>>
PyOrderedDict(items) == [py |-> "OrderedDict", v |-> items]

TagStr == "tag:yaml.org,2002:str"
TagMap == "tag:yaml.org,2002:map"
TagSeq == "tag:yaml.org,2002:seq"
TagOrderedDict == "tag:yaml.org,2002:python/object/apply:collections.OrderedDict"

\* yaml.dump with the default Dumper: the node that represents a value.  An
\* OrderedDict is represented as a call of its class on the list of its items.
RECURSIVE represent(_)
represent(data) ==
    CASE data.py = "str" ->
            [kind |-> "scalar", tag |-> TagStr, value |-> data.v]
      [] data.py = "dict" ->
            [kind |-> "mapping", tag |-> TagMap,
             value |-> [k \in DOMAIN data.v |-> represent(data.v[k])]]
      [] data.py = "list" ->
            [kind |-> "sequence", tag |-> TagSeq,
             value |-> [i \in DOMAIN data.v |-> represent(data.v[i])]]
      [] data.py = "OrderedDict" ->
            [kind |-> "sequence", tag |-> TagOrderedDict,
             value |-> << represent(PyList(
                            [i \in DOMAIN data.v |->
                                PyList(<<PyStr(data.v[i][1]), data.v[i][2]>>)])) >>]

yaml_dump(data) == represent(data)

\* yaml.load(f, Loader=yaml.Loader): the value a node constructs
RECURSIVE construct(_)
construct(node) ==
    CASE node.kind = "scalar" -> PyStr(node.value)
      [] node.kind = "mapping" ->
            PyDict([k \in DOMAIN node.value |-> construct(node.value[k])])
      [] node.kind = "sequence" /\ node.tag = TagSeq ->
            PyList([i \in DOMAIN node.value |-> construct(node.value[i])])
      [] node.kind = "sequence" /\ node.tag = TagOrderedDict ->
            LET args == [i \in DOMAIN node.value |-> construct(node.value[i])]
                items == args[1].v
            IN PyOrderedDict([i \in DOMAIN items |->
                                <<items[i].v[1].v, items[i].v[2]>>])

yaml_load(doc) == construct(doc)

(***************************************************************************)
(* The projects directory and the git working copy.                        *)
(***************************************************************************)
F_a == <<"a">> \o S_yaml
F_b == <<"b">> \o S_yaml
F_b_yml == <<"b">> \o S_yml
F_a_yaml == <<"a">> \o S_yaml \o S_yaml

FileNames == {F_a, F_b, F_b_yml, F_a_yaml}

\* the content of a file that was in the directory from the start
OldDoc == yaml_dump(PyStr("old"))

\* the file at path dst is created or truncated, and holds doc
WriteFile(files, dst, doc) ==
    [n \in (DOMAIN files) \cup {dst} |-> IF n = dst THEN doc ELSE files[n]]

(***************************************************************************)
(* get_topology_files                                                      *)
(***************************************************************************)
\* topology_projects_dir.iterdir(): the names of the entries of the directory
iterdir(files) == DOMAIN files

get_topology_files(files) ==
    { Replace(name, S_yaml, S_empty) : name \in { f \in iterdir(files) : EndsWith(f, S_yaml) } }

(***************************************************************************)
(* create_topology_file                                                    *)
(***************************************************************************)
\* client._get(path) for the path "/groups/<group>/attributes/<attribute>"
client_get(client, group, attribute) == client.attributes[<<group, attribute>>]

\* the entry create_topology_file builds
topology_entry(client, project_name) ==
    LET project_info == client.metadata[project_name]
        description == project_info.description
        field_of_science == project_info.purpose
        organization == client_get(client, project_name, "OSG:PI_Organization")
        pi_name == client_get(client, project_name, "OSG:PI_Name")
    IN PyOrderedDict(<<
          <<"Description", PyStr(description)>>,
          <<"FieldOfScience", PyStr(field_of_science)>>,
          <<"Organization", PyStr(organization)>>,
          <<"PIName", PyStr(pi_name)>>,
          <<"Sponsor", PyDict([CampusGrid |-> PyDict([Name |-> PyStr("OSG Connect")])])>> >>)

\* create_topology_file with the two attribute reads exchanged
create_topology_file_swapped(client, project_name, dst, files) ==
    LET e == topology_entry(client, project_name).v
    IN WriteFile(files, dst,
                 yaml_dump(PyOrderedDict(<<e[1], e[2], <<e[3][1], e[4][2]>>,
                                           <<e[4][1], e[3][2]>>, e[5]>>)))

\* the projects directory after create_topology_file(client, project_name, dst)
create_topology_file(client, project_name, dst, files) ==
    WriteFile(files, dst, yaml_dump(topology_entry(client, project_name)))

\* what the database holds about one group
GroupRows ==
    { [description |-> "desc-1", purpose |-> "science-1", org |-> "org-1", pi |-> "pi-1"],
      [description |-> "desc-2", purpose |-> "science-2", org |-> "org-2", pi |-> "pi-2"] }

\* the short names create_topology_file and commit are called with
P_a == <<"a">>
P_b == <<"b">>
P_a_yaml == <<"a">> \o S_yaml

ShortNames == {P_a, P_b, P_a_yaml}

ClientFor(project_name, row) ==
    [metadata |-> [n \in {project_name} |->
                      [description |-> row.description, purpose |-> row.purpose]],
     attributes |-> [k \in {project_name} \X {"OSG:PI_Organization", "OSG:PI_Name"} |->
                        IF k[2] = "OSG:PI_Organization" THEN row.org ELSE row.pi]]

(***************************************************************************)
(* commit                                                                  *)
(***************************************************************************)
S_projects_slash == <<"p", "r", "o", "j", "e", "c", "t", "s", "/">>

\* the path, from the root of the working copy, of a file of the projects directory
PathOf(name) == S_projects_slash \o name

\* repo.untracked_files: the paths, from the root of the working copy, of the
\* files git does not track
untracked_files_of(r, files) == { PathOf(n) : n \in DOMAIN files } \ r.tracked

\* Set(x), with Set imported from typing: "Type Set cannot be instantiated"
typing_Set(x) == [exc |-> "TypeError", val |-> {}]

\* "added topology file for new project: {}".format(project)
CommitMessage(project) == <<"added topology file for new project: ", project>>

\* commit(project, topology_repo_path): the exception it ends with, and the
\* working copy and remote it leaves
commit(project, r, files) ==
    LET untracked_files == typing_Set(untracked_files_of(r, files))
        project_file_name == project \o S_yaml
    IN IF untracked_files.exc # "none"
       THEN [exc |-> untracked_files.exc, repo |-> r]
       ELSE IF project_file_name \in untracked_files.val
            THEN [exc |-> "none",
                  repo |-> [r EXCEPT !.tracked = @ \cup {project_file_name},
                                     !.commits = Append(@, CommitMessage(project)),
                                     !.pushed = Len(r.commits) + 1]]
            ELSE [exc |-> "none", repo |-> r]

(***************************************************************************)
(* create_pull_request                                                     *)
(***************************************************************************)
HTTP_CREATED == 201

\* the status codes the pull-request endpoint answers with
StatusCodes == {HTTP_CREATED, 403, 422}

\* the JSON body create_pull_request posts
PullRequestBody(gh_user) ==
    [base |-> "master", head |-> <<gh_user, ":master">>,
     title |-> "[initiated by topology-sync tool] topology files have been created/updated"]

\* create_pull_request(gh_user, gh_token), r the response of requests.post:
\* how the call ends
create_pull_request(gh_user, gh_token, r) ==
    IF r.status_code # HTTP_CREATED
    THEN [exc |-> "none", ret |-> "None"]
    ELSE [exc |-> "none", ret |-> "None"]

(***************************************************************************)
(* Calls of the functions that read and change the working copy.           *)
(***************************************************************************)
CallGetTopologyFiles ==
    /\ call.op = "none"
    /\ call' = [op |-> "get_topology_files", dir |-> DOMAIN fs,
                out |-> get_topology_files(fs)]
    /\ prevCall' = [op |-> call.op]
    /\ UNCHANGED <<fs, repo>>
    /\ UNCHANGED mainVars

CallCreateTopologyFile ==
    /\ call.op = "none"
    /\ \E project_name \in ShortNames, dst \in FileNames, row \in GroupRows :
         LET client == ClientFor(project_name, row)
         IN /\ fs' = create_topology_file(client, project_name, dst, fs)
            /\ call' = [op |-> "create_topology_file", client |-> client,
                        project_name |-> project_name, dst |-> dst]
    /\ prevCall' = [op |-> call.op]
    /\ UNCHANGED repo
    /\ UNCHANGED mainVars

CallCommit ==
    /\ call.op \in {"none", "commit"}
    /\ \E project \in ShortNames :
         LET out == commit(project, repo, fs)
         IN /\ repo' = out.repo
            /\ call' = [op |-> "commit", project |-> project,
                        untracked_before |->
                            /\ (project \o S_yaml) \in DOMAIN fs
                            /\ PathOf(project \o S_yaml) \notin repo.tracked,
                        exc |-> out.exc,
                        changed |-> out.repo # repo]
    /\ prevCall' = call
    /\ UNCHANGED fs
    /\ UNCHANGED mainVars

CallCreatePullRequest ==
    /\ call.op = "none"
    /\ repo.pulls < MaxPRs
    /\ \E gh_user \in {"operator"}, status \in StatusCodes :
         /\ call' = [op |-> "create_pull_request", body |-> PullRequestBody(gh_user),
                     status |-> status,
                     out |-> create_pull_request(gh_user, "token",
                                                 [status_code |-> status])]
         /\ repo' = [repo EXCEPT !.pulls = IF status = HTTP_CREATED THEN @ + 1 ELSE @]
    /\ prevCall' = [op |-> call.op]
    /\ UNCHANGED fs
    /\ UNCHANGED mainVars

\* a fresh clone: every file of the projects directory is tracked
InitRepo ==
    /\ call = NoCall
    /\ prevCall = NoCall
    /\ \E S \in SUBSET FileNames :
         /\ Cardinality(S) <= MaxFiles
         /\ fs = [n \in S |-> OldDoc]
         /\ repo = [tracked |-> { PathOf(n) : n \in S }, commits |-> <<>>,
                    pushed |-> 0, pulls |-> 0]
    /\ MainIdle

NextRepo ==
    \/ CallGetTopologyFiles
    \/ CallCreateTopologyFile
    \/ CallCommit
    \/ CallCreatePullRequest
    \/ Forget

SpecRepo == InitRepo /\ [][NextRepo]_vars

(***************************************************************************)
(* The expressions of the script's loop over projects_added_in_last_day.   *)
(***************************************************************************)
\* project[0].replace("root.osg.", "")
project_name_of(project) == Replace(project[1], S_rootosgdot, S_empty)

\* project_name not in topology_files
needs_file(project, topology_files) == project_name_of(project) \notin topology_files

\* "{}.yaml".format(project_name), the file name of the destination
dst_name_of(project) == project_name_of(project) \o S_yaml

(***************************************************************************)
(* C3 (as claimed): get_topology_files returns exactly the names ending in *)
(* ".yaml" with that trailing suffix removed, so that each stem followed   *)
(* by ".yaml" is a file name of the directory.  The code removes every     *)
(* ".yaml" of the name, and TLC refutes this.                              *)
(***************************************************************************)
HasYamlSuffix(n) == Len(n) >= Len(S_yaml) /\ SubSeq(n, Len(n) - Len(S_yaml) + 1, Len(n)) = S_yaml

WithoutSuffix(n) == SubSeq(n, 1, Len(n) - Len(S_yaml))

C3_StemsExact ==
    call.op = "get_topology_files" =>
        /\ call.out = { WithoutSuffix(n) : n \in { f \in call.dir : HasYamlSuffix(f) } }
        /\ \A s \in call.out : (s \o S_yaml) \in call.dir

(***************************************************************************)
(* C4: after create_topology_file, the document at dst, loaded again, is a *)
(* mapping with exactly the keys Description, FieldOfScience, Organization,*)
(* PIName and Sponsor, holding the group's description and purpose, its    *)
(* attributes OSG:PI_Organization and OSG:PI_Name, and the fixed Sponsor   *)
(* mapping {CampusGrid: {Name: "OSG Connect"}}.                            *)
(***************************************************************************)
\* the mapping a loaded dict or OrderedDict is: key -> value, a later item of
\* an OrderedDict replacing an earlier one of the same key
MappingOf(d) ==
    IF d.py = "OrderedDict"
    THEN [k \in { d.v[i][1] : i \in DOMAIN d.v } |->
            LET last == CHOOSE i \in DOMAIN d.v :
                            /\ d.v[i][1] = k
                            /\ \A j \in DOMAIN d.v : d.v[j][1] = k => j <= i
            IN d.v[last][2]]
    ELSE d.v

C4_RoundTrip ==
    call.op = "create_topology_file" =>
        LET loaded == yaml_load(fs[call.dst])
            m == MappingOf(loaded)
            g == call.project_name
        IN /\ loaded.py \in {"dict", "OrderedDict"}
           /\ DOMAIN m = {"Description", "FieldOfScience", "Organization", "PIName", "Sponsor"}
           /\ m["Description"] = PyStr(call.client.metadata[g].description)
           /\ m["FieldOfScience"] = PyStr(call.client.metadata[g].purpose)
           /\ m["Organization"] = PyStr(call.client.attributes[<<g, "OSG:PI_Organization">>])
           /\ m["PIName"] = PyStr(call.client.attributes[<<g, "OSG:PI_Name">>])
           /\ m["Sponsor"].py = "dict"
           /\ DOMAIN m["Sponsor"].v = {"CampusGrid"}
           /\ m["Sponsor"].v["CampusGrid"].py = "dict"
           /\ DOMAIN m["Sponsor"].v["CampusGrid"].v = {"Name"}
           /\ m["Sponsor"].v["CampusGrid"].v["Name"] = PyStr("OSG Connect")

\* a call that wrote the second group's entry over an existing file
C4_Witness ==
    /\ call.op = "create_topology_file"
    /\ call.dst = F_b
    /\ PathOf(F_b) \in repo.tracked
    /\ call.client.metadata[call.project_name].description = "desc-2"
    /\ fs[F_b] # OldDoc

(***************************************************************************)
(* C6 (as claimed): of two calls of commit in succession for the same      *)
(* project file, untracked at the first, the second raises no error and    *)
(* leaves the working copy and the remote as they were.  Every call of     *)
(* commit raises TypeError, and TLC refutes this.                          *)
(***************************************************************************)
C6_SecondCommitNoop ==
    ( /\ call.op = "commit"
      /\ prevCall.op = "commit"
      /\ prevCall.project = call.project
      /\ prevCall.untracked_before ) =>
        /\ call.exc = "none"
        /\ ~call.changed

(***************************************************************************)
(* C8 (as claimed): when the pull-request call answers a status other than *)
(* 201, create_pull_request ends in a way that differs from success (an    *)
(* exception or a result that reports the failure), and the commits pushed *)
(* stay.  The code ends the same way on every status, and TLC refutes it.  *)
(***************************************************************************)
C8_FailureSurfaced ==
    (call.op = "create_pull_request" /\ call.status # HTTP_CREATED) =>
        /\ call.out # [exc |-> "none", ret |-> "None"]
        /\ repo.pushed = Len(repo.commits)

(***************************************************************************)
(* C9 (as claimed): a project the script's test finds missing from the     *)
(* known-file-set gets a destination that is no file of the directory the  *)
(* set was read from, so that no file of the snapshot is written over.     *)
(* With "a.yaml.yaml" in the directory the set holds "a" and not "a.yaml", *)
(* and TLC refutes this.                                                   *)
(***************************************************************************)
N_a == S_rootosgdot \o P_a
N_b == S_rootosgdot \o P_b
N_a_yaml == S_rootosgdot \o P_a_yaml

RECURSIVE loop_destinations(_, _)
loop_destinations(projects, topology_files) ==
    IF projects = <<>> THEN <<>>
    ELSE IF needs_file(Head(projects), topology_files)
         THEN <<dst_name_of(Head(projects))>>
                  \o loop_destinations(Tail(projects), topology_files)
         ELSE loop_destinations(Tail(projects), topology_files)

N_nested_a == S_rootosgdot \o N_a

DaysIn(y, m) ==
    CASE m \in {1, 3, 5, 7, 8, 10, 12} -> 31
      [] m \in {4, 6, 9, 11} -> 30
      [] OTHER -> IF y % 4 = 0 /\ (y % 100 # 0 \/ y % 400 = 0) THEN 29 ELSE 28

\* t - timedelta(hours=24)
MinusHours24(t) ==
    IF t[3] > 1 THEN <<t[1], t[2], t[3] - 1, t[4], t[5], t[6], t[7]>>
    ELSE IF t[2] > 1
         THEN <<t[1], t[2] - 1, DaysIn(t[1], t[2] - 1), t[4], t[5], t[6], t[7]>>
         ELSE <<t[1] - 1, 12, 31, t[4], t[5], t[6], t[7]>>

\* "https://github.com/{username}/topology.git".format(gh_username): the
\* template names its field and the argument is positional
format_clone_url(gh_username) == [exc |-> "KeyError", val |-> <<>>]

Now_jan3 == <<2022, 1, 3, 1, 1, 1, 0>>
Now_jan1 == <<2022, 1, 1, 12, 0, 0, 0>>

MainGroupNames == {N_root, N_a, N_b, N_nested_a}

\* what a run starts from: whether the token file can be read, the database,
\* the clock, and the files of the projects directory of the operator's fork
EnvironmentsOf(maxGroups, clocks, forks) ==
    { [token_file |-> t, client |-> c, now |-> n, fork_files |-> f] :
        t \in BOOLEAN,
        c \in UNION { { [group_list |-> l,
                         metadata |-> [g \in Range(l) |-> [creation_date |-> dates[g]]]] :
                            dates \in [Range(l) -> DateStrings] } :
                      l \in ListsOf(MainGroupNames, maxGroups) },
        n \in clocks,
        f \in forks }

Environments == EnvironmentsOf(MaxGroups, {Now_jan3, Now_jan1}, SUBSET {F_a, F_a_yaml})

InitMain ==
    /\ call = NoCall
    /\ prevCall = NoCall
    /\ fs = <<>>
    /\ repo = NoRepo
    /\ pc = "read_token"
    /\ env \in Environments
    /\ exc = "none"
    /\ all_projects = <<>>
    /\ projects_added_in_last_day = <<>>
    /\ tmpdir = "none"
    /\ effects = <<>>

\* lines 223-228: a token file that cannot be opened ends the run
ReadToken ==
    /\ pc = "read_token"
    /\ IF env.token_file
       THEN pc' = "make_client" /\ exc' = exc
       ELSE pc' = "done" /\ exc' = "RuntimeError"
    /\ UNCHANGED <<env, all_projects, projects_added_in_last_day, tmpdir, effects>>
    /\ UNCHANGED libVars

\* lines 231-232
MakeClient ==
    /\ pc = "make_client"
    /\ pc' = "list"
    /\ UNCHANGED <<env, exc, all_projects, projects_added_in_last_day, tmpdir, effects>>
    /\ UNCHANGED libVars

\* line 235
ListProjects ==
    /\ pc = "list"
    /\ LET out == get_all_osg_projects(env.client)
       IN IF out.exc # "none"
          THEN pc' = "done" /\ exc' = out.exc /\ all_projects' = all_projects
          ELSE pc' = "filter" /\ exc' = exc /\ all_projects' = out.val
    /\ UNCHANGED <<env, projects_added_in_last_day, tmpdir, effects>>
    /\ UNCHANGED libVars

\* lines 238-239
FilterRecent ==
    /\ pc = "filter"
    /\ projects_added_in_last_day' =
          get_all_projects_added_after_date(all_projects, MinusHours24(env.now))
    /\ pc' = "with_enter"
    /\ UNCHANGED <<env, exc, all_projects, tmpdir, effects>>
    /\ UNCHANGED libVars

\* line 244: tempfile.TemporaryDirectory() creates the directory
EnterTmpDir ==
    /\ pc = "with_enter"
    /\ tmpdir' = "exists"
    /\ pc' = "clone"
    /\ UNCHANGED <<env, exc, all_projects, projects_added_in_last_day, effects>>
    /\ UNCHANGED libVars

\* lines 245-250: the arguments of Repo.clone_from are evaluated before the
\* call, and the first of them raises
CloneFork ==
    /\ pc = "clone"
    /\ LET url == format_clone_url("operator")
       IN IF url.exc # "none"
          THEN /\ exc' = url.exc
               /\ effects' = effects
          ELSE /\ exc' = "NameError"
               /\ effects' = effects
    /\ pc' = "with_exit"
    /\ UNCHANGED <<env, all_projects, projects_added_in_last_day, tmpdir>>
    /\ UNCHANGED libVars

\* the end of a block that made the directory with tempfile.mkdtemp() and no
\* with statement: the exception ends the run and the directory stays
ExitTmpDir_leak ==
    /\ pc = "with_exit"
    /\ tmpdir' = tmpdir
    /\ pc' = "done"
    /\ UNCHANGED <<env, exc, all_projects, projects_added_in_last_day, effects>>
    /\ UNCHANGED libVars

\* the end of the with statement: the directory is removed and the exception
\* goes on to end the run
ExitTmpDir ==
    /\ pc = "with_exit"
    /\ tmpdir' = "removed"
    /\ pc' = "done"
    /\ UNCHANGED <<env, exc, all_projects, projects_added_in_last_day, effects>>
    /\ UNCHANGED libVars

NextMain ==
    \/ ReadToken
    \/ MakeClient
    \/ ListProjects
    \/ FilterRecent
    \/ EnterTmpDir
    \/ CloneFork
    \/ ExitTmpDir

SpecMain == InitMain /\ [][NextMain]_vars

\* the exceptions that what the run is given causes: an unreadable token
\* file, a creation date that does not parse
InputFailures == {"RuntimeError", "ValueError"}

\* how often e is among the effects of the run
Count(e) == Cardinality({ i \in DOMAIN effects : effects[i] = e })

(***************************************************************************)
(* C5 (as claimed): when a run that its input does not fail has ended, for *)
(* every project created on or after the cutoff whose short name is not in *)
(* the known-file-set, <short name>.yaml was written once and one commit   *)
(* names the project; for any other project nothing was written or         *)
(* committed.  The run ends with KeyError before it clones, having written *)
(* and committed nothing, and TLC refutes this.                            *)
(***************************************************************************)
C5_MissingWrittenAndCommitted ==
    (pc = "done" /\ exc \notin InputFailures) =>
        \A project \in Range(projects_added_in_last_day) :
            IF needs_file(project, get_topology_files([n \in env.fork_files |-> OldDoc]))
            THEN /\ Count(<<"write", dst_name_of(project)>>) = 1
                 /\ Count(<<"commit", CommitMessage(project[1])>>) = 1
            ELSE /\ Count(<<"write", dst_name_of(project)>>) = 0
                 /\ Count(<<"commit", CommitMessage(project[1])>>) = 0

(***************************************************************************)
(* C7 (as claimed): when a run that its input does not fail has ended, it  *)
(* has made the pull-request call exactly once, after every write, commit  *)
(* and push.  The run ends with KeyError and never makes the call, and TLC *)
(* refutes this.                                                           *)
(***************************************************************************)
C7_OnePullRequestLast ==
    (pc = "done" /\ exc \notin InputFailures) =>
        /\ Count(<<"pull_request">>) = 1
        /\ effects # <<>> /\ effects[Len(effects)] = <<"pull_request">>

(***************************************************************************)
(* The script as the interpreter runs it: one thread, which does not stop  *)
(* inside the with block.  Once the block is entered the statement in it   *)
(* runs, and once the block is left, normally or by an exception, the      *)
(* context manager's exit runs.                                            *)
(***************************************************************************)
SpecMainFair == SpecMain /\ WF_vars(CloneFork) /\ WF_vars(ExitTmpDir)

(***************************************************************************)
(* C11: once the temporary directory has been created it is eventually     *)
(* removed, on every path the run takes through the with block, and after  *)
(* it was removed it stays removed and nothing is written, committed or    *)
(* pushed.                                                                 *)
(***************************************************************************)
C11_TmpDirReleased ==
    /\ (tmpdir = "exists") ~> (tmpdir = "removed")
    /\ [][tmpdir = "removed" =>
            /\ tmpdir' = "removed"
            /\ effects' = effects
            /\ fs' = fs
            /\ repo' = repo]_vars

\* a run that created the directory, failed inside the with block with a
\* project to write, and has ended with the directory removed
C11_Witness ==
    /\ pc = "done"
    /\ tmpdir = "removed"
    /\ exc = "KeyError"
    /\ projects_added_in_last_day # <<>>

====
